---- MODULE Spec2Model ----
(***************************************************************************)
(* Model of MultiscaleGenerator.multiscale_match and of the per-image loop *)
(* of MultiscaleGenerator.generate_dataset                                 *)
(* (src/research_tools/generator/multiscale.py).                           *)
(*                                                                         *)
(* A box is a tuple <<xmin, ymin, xmax, ymax>> of integers.  An IoU value  *)
(* is kept exact as the pair <<intersection, union>>; comparisons between  *)
(* IoU values and with iou_thresh are done by cross-multiplication.        *)
(***************************************************************************)
EXTENDS Integers, Sequences, FiniteSets

\* ------------------------------------------------------------------------
\* Bounds of the explored inputs
\* ------------------------------------------------------------------------
\* ground-truth annotations of the image
MaxGT == 3
\* detections of the image, all scales together
MaxDets == 3
\* annotations and detections together
MaxItems == 5

\* ------------------------------------------------------------------------
\* Configuration (constructor parameters of MultiscaleGenerator)
\* ------------------------------------------------------------------------
\* self.iou_thresh = IouThreshNum / IouThreshDen
IouThreshNum == 1
IouThreshDen == 2
\* self.conf_thresh, in tenths
ConfThresh == 5
\* self.scales, in the order the caller configured them
scales == <<640, 320, 480>>
\* the values self.rematch_thresh is explored with
RematchThreshValues == {2, 3}

\* ------------------------------------------------------------------------
\* Input palettes
\* ------------------------------------------------------------------------
BoxA == <<0, 0, 10, 10>>
BoxB == <<1, 1, 9, 9>>
BoxC == <<3, 0, 13, 10>>

\* the detections the image can have: the scale that reported it, its
\* xmin/ymin/xmax/ymax box, its class and its score in tenths
DetPalette ==
    { [scale |-> 320, box |-> BoxB, cls |-> 1, score |-> 9],
      [scale |-> 320, box |-> BoxA, cls |-> 1, score |-> 9],
      [scale |-> 320, box |-> BoxA, cls |-> 2, score |-> 9],
      [scale |-> 480, box |-> BoxA, cls |-> 1, score |-> 9],
      [scale |-> 480, box |-> BoxA, cls |-> 1, score |-> 3],
      [scale |-> 480, box |-> BoxC, cls |-> 1, score |-> 9],
      [scale |-> 640, box |-> BoxA, cls |-> 1, score |-> 9],
      [scale |-> 640, box |-> BoxC, cls |-> 1, score |-> 9],
      [scale |-> 640, box |-> BoxA, cls |-> 2, score |-> 9] }

\* ground-truth annotations (COCO x/y/width/height box, class)
GTItems ==
    { [bbox |-> <<1, 1, 8, 8>>, cls |-> 1],
      [bbox |-> <<0, 0, 10, 10>>, cls |-> 2],
      [bbox |-> <<3, 0, 10, 10>>, cls |-> 2] }

VARIABLES
    pc,                          \* position in generate_dataset / multiscale_match
    rematch_thresh,              \* self.rematch_thresh
    o_items,                     \* self.annotation_map[image_name]
    bboxes_scales,               \* scale -> detections of the image at that scale
    batch_idx,                   \* loop variable of generate_dataset, line 161
    results,                     \* generate_dataset: results
    gt_nonmatched_objects,       \* generate_dataset: second value of the last call
    infer_nonmatched_objects,    \* generate_dataset: third value of the last call
    result_annotations,          \* generate_dataset: result_annotations
    gt_objects,                  \* class -> ground-truth boxes
    infer_objects,               \* class -> scale -> detection boxes above conf_thresh
    class_queue,                 \* classes still to be visited by the loop of line 236
    class_id,                    \* class of the current iteration of that loop
    gt_bboxes,                   \* gt_objects[class_id] of the current class
    gt_idx,                      \* loop variable of line 267
    match_table,                 \* gt index -> scales that matched it
    gt_only_bbox_table,
    infer_bboxes_scales,         \* scale -> detections of the class not yet consumed
    infer_only_bbox_table,
    srcbbox_idx,
    infer_only_extras,
    match_table_all,
    gt_only_bbox_table_all,
    infer_only_bbox_table_all,
    flatten_matched_items,
    flatten_gt_only_items,
    flatten_infer_only_items,
    matched_item_idx

vars == << pc, rematch_thresh, o_items, bboxes_scales, batch_idx, results,
           gt_nonmatched_objects, infer_nonmatched_objects, result_annotations,
           gt_objects, infer_objects, class_queue, class_id, gt_bboxes, gt_idx,
           match_table, gt_only_bbox_table, infer_bboxes_scales,
           infer_only_bbox_table, srcbbox_idx, infer_only_extras,
           match_table_all, gt_only_bbox_table_all, infer_only_bbox_table_all,
           flatten_matched_items, flatten_gt_only_items, flatten_infer_only_items,
           matched_item_idx >>

\* ------------------------------------------------------------------------
\* Generic helpers
\* ------------------------------------------------------------------------
Min2(a, b) == IF a <= b THEN a ELSE b
Max2(a, b) == IF a >= b THEN a ELSE b

SeqsUpTo(S, n) == UNION { [1..k -> S] : k \in 0..n }

Range(s) == { s[i] : i \in 1..Len(s) }

\* np.delete(s, i, axis=0) with a 1-based index
NpDelete(s, i) == SubSeq(s, 1, i - 1) \o SubSeq(s, i + 1, Len(s))

\* index of the first element equal to v, 0 when there is none
\* (the "for idx, x in enumerate(s): if np.all(x == v): ... break" scans)
FirstIndexOf(s, v) ==
    IF \E i \in 1..Len(s) : s[i] = v
    THEN CHOOSE i \in 1..Len(s) : s[i] = v /\ \A j \in 1..(i - 1) : s[j] # v
    ELSE 0

RECURSIVE SortedSeq(_)
\* sorted(S) for a finite set of integers
SortedSeq(S) ==
    IF S = {} THEN << >>
    ELSE LET m == CHOOSE x \in S : \A y \in S : x <= y
         IN  << m >> \o SortedSeq(S \ {m})

RECURSIVE Concat(_)
\* concatenation of a sequence of sequences
Concat(ss) == IF ss = << >> THEN << >> ELSE Head(ss) \o Concat(Tail(ss))

RECURSIVE SumSeq(_)
SumSeq(s) == IF s = << >> THEN 0 ELSE Head(s) + SumSeq(Tail(s))

ScaleSet == Range(scales)
Classes == { d.cls : d \in DetPalette } \cup { g.cls : g \in GTItems }
EmptyTable == [c \in Classes |-> << >>]

\* ------------------------------------------------------------------------
\* Geometry (util.py: iou_np, xywh2xyminmax)
\* ------------------------------------------------------------------------
Area(b) == (b[3] - b[1]) * (b[4] - b[2])

Intersection(a, b) ==
    Max2(0, Min2(a[3], b[3]) - Max2(a[1], b[1]))
  * Max2(0, Min2(a[4], b[4]) - Max2(a[2], b[2]))

\* the IoU of two boxes as <<intersection, union>>
iou_np(a, b) ==
    LET i == Intersection(a, b) IN << i, Area(a) + Area(b) - i >>

xywh2xyminmax(b) == << b[1], b[2], b[1] + b[3], b[2] + b[4] >>

\* comparisons of exact IoU values
IouLess(p, q) == p[1] * q[2] < q[1] * p[2]
\* iou >= self.iou_thresh
IouGeThresh(p) == p[1] * IouThreshDen >= IouThreshNum * p[2]
\* iou > self.iou_thresh
IouGtThresh(p) == p[1] * IouThreshDen > IouThreshNum * p[2]

\* faulty variant of NpArgmax: np.argmin, the first minimum
NpArgmin(ious) ==
    CHOOSE i \in 1..Len(ious) :
        /\ \A j \in 1..Len(ious) : ~IouLess(ious[j], ious[i])
        /\ \A j \in 1..(i - 1) : IouLess(ious[i], ious[j])

\* np.argmax: 1-based index of the first maximum of a non-empty sequence of IoUs
NpArgmax(ious) ==
    CHOOSE i \in 1..Len(ious) :
        /\ \A j \in 1..Len(ious) : ~IouLess(ious[i], ious[j])
        /\ \A j \in 1..(i - 1) : IouLess(ious[j], ious[i])

\* ------------------------------------------------------------------------
\* multiscale_match, lines 198-238: per-class ground truth and detections
\* ------------------------------------------------------------------------
\* gt_objects[class_id] = o_bboxes[np.where(o_cls == class_id)]
GtObjectsOf(items, c) ==
    LET sel == SelectSeq(items, LAMBDA it : it.cls = c)
    IN  [i \in 1..Len(sel) |-> xywh2xyminmax(sel[i].bbox)]

\* faulty variant of ScoreKept: the comparison turned around
ScoreKeptInverted(d) == d.score < ConfThresh

\* scores > self.conf_thresh
ScoreKept(d) == d.score > ConfThresh

\* infer_objects[class_id][scale]: the boxes of the scale's detections that
\* pass the score filter and have the class
InferObjectsOf(dets, c) ==
    [s \in ScaleSet |->
        LET sel == SelectSeq(dets[s], LAMBDA d : ScoreKept(d) /\ d.cls = c)
        IN  [i \in 1..Len(sel) |-> sel[i].box]]

\* the classes of line 236: every class of a detection (filtered or not) or
\* of a ground-truth item
AllClassesOf(items, dets) ==
    { it.cls : it \in Range(items) }
    \cup UNION { { d.cls : d \in Range(dets[s]) } : s \in ScaleSet }

\* "class_id in infer_objects": some scale kept a detection of the class
InInferObjects(c) == \E s \in ScaleSet : Len(infer_objects[c][s]) > 0
\* "class_id in gt_objects"
InGtObjects(c) == Len(gt_objects[c]) > 0

\* faulty variant of ExtendByScale: the scales descending
ExtendByScaleDescending(by_scale) ==
    LET ss == SortedSeq(ScaleSet)
    IN  Concat([i \in 1..Len(ss) |-> by_scale[ss[Len(ss) + 1 - i]]])

\* the boxes of all scales, scale ascending (lines 254-255 and 301-302)
ExtendByScale(by_scale) ==
    LET ss == SortedSeq(ScaleSet)
    IN  Concat([i \in 1..Len(ss) |-> by_scale[ss[i]]])

\* ------------------------------------------------------------------------
\* Cross-scale GT matcher, lines 267-298
\* ------------------------------------------------------------------------
RECURSIVE MatchScalesKeep(_, _, _, _)
\* faulty variant of MatchScales: a matched detection stays in its scale's list
MatchScalesKeep(gt_bbox_single, ss, residual, matched) ==
    IF ss = << >> THEN [residual |-> residual, matched |-> matched]
    ELSE
        LET scale == Head(ss)
            cand == residual[scale]
            ious == [i \in 1..Len(cand) |-> iou_np(gt_bbox_single, cand[i])]
        IN  IF Len(cand) > 0 /\ IouGeThresh(ious[NpArgmax(ious)])
            THEN MatchScalesKeep(gt_bbox_single, Tail(ss), residual,
                                 Append(matched, scale))
            ELSE MatchScalesKeep(gt_bbox_single, Tail(ss), residual, matched)

RECURSIVE MatchScales(_, _, _, _)
\* the loop of line 270 for one ground-truth box: ss are the scales still to
\* visit, residual the per-scale detections left, matched the scales that
\* matched so far
MatchScales(gt_bbox_single, ss, residual, matched) ==
    IF ss = << >> THEN [residual |-> residual, matched |-> matched]
    ELSE
        LET scale == Head(ss)
            cand == residual[scale]
        IN  IF Len(cand) = 0
            THEN MatchScales(gt_bbox_single, Tail(ss), residual, matched)
            ELSE
                LET ious == [i \in 1..Len(cand) |-> iou_np(gt_bbox_single, cand[i])]
                    maxiou_idx == NpArgmax(ious)
                IN  IF IouGeThresh(ious[maxiou_idx])
                    THEN MatchScales(gt_bbox_single, Tail(ss),
                                     [residual EXCEPT ![scale] = NpDelete(cand, maxiou_idx)],
                                     Append(matched, scale))
                    ELSE MatchScales(gt_bbox_single, Tail(ss), residual, matched)

\* ------------------------------------------------------------------------
\* Leftover rematcher, lines 307-335
\* ------------------------------------------------------------------------
RECURSIVE SortedDescIou(_)
\* iou_table[np.argsort(iou_table)][::-1]
SortedDescIou(ious) ==
    IF ious = << >> THEN << >>
    ELSE LET m == NpArgmax(ious)
         IN  << ious[m] >> \o SortedDescIou(NpDelete(ious, m))

\* faulty variant of RematchCondition: one value more than rematch_thresh
RematchConditionOneMore(iou_table, k) ==
    LET top == SubSeq(SortedDescIou(iou_table), 1, Min2(k + 1, Len(iou_table)))
    IN  \A i \in 1..Len(top) : IouGeThresh(top[i])

\* the condition of line 319
RematchCondition(iou_table, k) ==
    LET top == SubSeq(SortedDescIou(iou_table), 1, Min2(k, Len(iou_table)))
    IN  \A i \in 1..Len(top) : IouGeThresh(top[i])

\* faulty variant of RemoveThreshOver: no box is removed
RemoveThreshOverNone(table, items) == table

RECURSIVE RemoveThreshOver(_, _)
\* lines 323-329: each box of items removes the first equal box of table
RemoveThreshOver(table, items) ==
    IF items = << >> THEN table
    ELSE LET idx == FirstIndexOf(table, Head(items))
         IN  RemoveThreshOver(IF idx = 0 THEN table ELSE NpDelete(table, idx),
                              Tail(items))

\* one iteration of the while loop of line 308: the table, the cursor
\* (counted from 1) and the promoted boxes after it
RematchIteration(table, idx, extras, k) ==
    LET srcbbox == table[idx]
        iou_table == [i \in 1..Len(table) |-> iou_np(srcbbox, table[i])]
        thresh_over_bboxes ==
            SelectSeq(table, LAMBDA b : IouGeThresh(iou_np(srcbbox, b)))
    IN  IF RematchCondition(iou_table, k)
        THEN [ table |-> RemoveThreshOver(table, thresh_over_bboxes),
               idx |-> idx,
               extras |-> Append(extras, srcbbox) ]
        ELSE [ table |-> table, idx |-> idx + 1, extras |-> extras ]

RECURSIVE RematchLoop(_, _, _, _)
\* the while loop of lines 308-335 run to its end
RematchLoop(table, idx, extras, k) ==
    IF idx > Len(table) THEN [table |-> table, idx |-> idx, extras |-> extras]
    ELSE LET r == RematchIteration(table, idx, extras, k)
         IN  RematchLoop(r.table, r.idx, r.extras, k)

\* ------------------------------------------------------------------------
\* Cross-class conflict resolver, lines 372-432
\* ------------------------------------------------------------------------
\* lines 384-388: the closure's class_id once, then the class of every
\* overlapping item occurrence-count times
VoteClasses(cid, iou_over_items) ==
    << cid >> \o
    Concat([i \in 1..Len(iou_over_items) |->
               [j \in 1..iou_over_items[i].occ |-> iou_over_items[i].cls]])

\* faulty variant of DominantClass: among the classes with the highest
\* count the last one of np.unique's order
DominantClassLast(all_classes) ==
    LET count(c) == Cardinality({ i \in 1..Len(all_classes) : all_classes[i] = c })
    IN  CHOOSE c \in Range(all_classes) :
            \A d \in Range(all_classes) :
                /\ count(d) <= count(c)
                /\ count(d) = count(c) => d <= c

\* faulty variant of DominantClass: among the classes with the highest
\* count the one that was voted first, whatever its id
DominantClassFirstVote(all_classes) ==
    LET count(c) == Cardinality({ i \in 1..Len(all_classes) : all_classes[i] = c })
    IN  CHOOSE c \in Range(all_classes) :
            \A d \in Range(all_classes) :
                /\ count(d) <= count(c)
                /\ count(d) = count(c)
                       => FirstIndexOf(all_classes, c) <= FirstIndexOf(all_classes, d)

\* lines 389-390: np.unique sorts the classes, np.argmax takes the first
\* class with the highest count
DominantClass(all_classes) ==
    LET count(c) == Cardinality({ i \in 1..Len(all_classes) : all_classes[i] = c })
    IN  CHOOSE c \in Range(all_classes) :
            \A d \in Range(all_classes) :
                /\ count(d) <= count(c)
                /\ count(d) = count(c) => c <= d

\* faulty variant of DeleteOverItems: stops after the first overlapping item
DeleteFirstOverItem(flatten_items, iou_over_items) ==
    IF iou_over_items = << >> THEN [items |-> flatten_items, ok |-> TRUE]
    ELSE LET idx == FirstIndexOf(flatten_items, Head(iou_over_items))
         IN  IF idx = 0
             THEN [items |-> flatten_items, ok |-> FALSE]
             ELSE [items |-> NpDelete(flatten_items, idx), ok |-> TRUE]

RECURSIVE DeleteOverItemsEveryEqual(_, _)
\* faulty variant of DeleteOverItems: an overlapping item removes every row
\* equal to it
DeleteOverItemsEveryEqual(flatten_items, iou_over_items) ==
    IF iou_over_items = << >> THEN [items |-> flatten_items, ok |-> TRUE]
    ELSE IF FirstIndexOf(flatten_items, Head(iou_over_items)) = 0
         THEN [items |-> flatten_items, ok |-> FALSE]
         ELSE DeleteOverItemsEveryEqual(
                  SelectSeq(flatten_items, LAMBDA r : r # Head(iou_over_items)),
                  Tail(iou_over_items))

RECURSIVE DeleteOverItems(_, _)
\* lines 393-400: each overlapping item removes the first equal row of
\* flatten_items; ok is FALSE when a row is missing (assert idx != -1)
DeleteOverItems(flatten_items, iou_over_items) ==
    IF iou_over_items = << >> THEN [items |-> flatten_items, ok |-> TRUE]
    ELSE LET idx == FirstIndexOf(flatten_items, Head(iou_over_items))
         IN  IF idx = 0
             THEN [items |-> flatten_items, ok |-> FALSE]
             ELSE DeleteOverItems(NpDelete(flatten_items, idx), Tail(iou_over_items))

\* sanitize_bboxes: matched is the array passed as flatten_matched_items
\* after the in-place write of line 403, items the array it returns.  cid,
\* idx and bbox_origin are the closure's class_id, matched_item_idx and
\* bbox_origin at the time of the call.
sanitize_bboxes(matched, flatten_items, iou_over_items, cid, idx, bbox_origin) ==
    LET dorminant_class_id == DominantClass(VoteClasses(cid, iou_over_items))
        del == DeleteOverItems(flatten_items, iou_over_items)
    IN  [ matched |-> [matched EXCEPT ![idx] =
                          [box |-> bbox_origin, cls |-> dorminant_class_id, occ |-> 1]],
          items |-> del.items,
          ok |-> del.ok ]

\* faulty variant of IouOverItems: the rows with bbox_origin's coordinates
\* are left out in the outer matches too
IouOverItemsSkipSame(bbox_origin, flatten_items, skip_same) ==
    SelectSeq(flatten_items,
              LAMBDA r : /\ r.box # bbox_origin
                         /\ IouGtThresh(iou_np(bbox_origin, r.box)))

\* faulty variant of IouOverItems: the inner match leaves out one row, the
\* first with bbox_origin's coordinates, instead of all of them
IouOverItemsSkipFirst(bbox_origin, flatten_items, skip_same) ==
    LET first == FirstIndexOf([i \in 1..Len(flatten_items) |-> flatten_items[i].box],
                              bbox_origin)
        idxs == SelectSeq([i \in 1..Len(flatten_items) |-> i],
                    LAMBDA i : /\ ~(skip_same /\ i = first)
                               /\ IouGtThresh(iou_np(bbox_origin, flatten_items[i].box)))
    IN  [k \in 1..Len(idxs) |-> flatten_items[idxs[k]]]

\* faulty variant of IouOverItems: the inner match does not leave out the
\* rows with bbox_origin's coordinates
IouOverItemsNoSkip(bbox_origin, flatten_items, skip_same) ==
    SelectSeq(flatten_items, LAMBDA r : IouGtThresh(iou_np(bbox_origin, r.box)))

\* the rows of flatten_items whose IoU with bbox_origin is above iou_thresh;
\* the inner match (skip_same) leaves out the rows with bbox_origin's
\* coordinates (lines 408-409)
IouOverItems(bbox_origin, flatten_items, skip_same) ==
    SelectSeq(flatten_items,
              LAMBDA r : /\ ~(skip_same /\ r.box = bbox_origin)
                         /\ IouGtThresh(iou_np(bbox_origin, r.box)))

\* the loops of lines 407, 417 and 425 rebind class_id to the class of each
\* row they visit: after the loop it is the class of the last row
ClassIdAfterLoop(cid, flatten_items) ==
    IF Len(flatten_items) = 0 THEN cid
    ELSE flatten_items[Len(flatten_items)].cls

\* one iteration of the while loop of line 373
ResolveIteration(fm, fg, fi, idx) ==
    LET bbox_origin == fm[idx].box
        \* Inner Match: the caller rebinds flatten_matched_items to the
        \* returned array, so the write of line 403 to the old array is lost
        cid1 == ClassIdAfterLoop(fm[idx].cls, fm)
        over1 == IouOverItems(bbox_origin, fm, TRUE)
        s1 == sanitize_bboxes(fm, fm, over1, cid1, idx, bbox_origin)
        fm1 == IF Len(over1) > 0 THEN s1.items ELSE fm
        ok1 == Len(over1) > 0 => s1.ok
        \* Outer Match (GT->Matched)
        cid2 == ClassIdAfterLoop(cid1, fg)
        over2 == IouOverItems(bbox_origin, fg, FALSE)
        s2 == sanitize_bboxes(fm1, fg, over2, cid2, idx, bbox_origin)
        fm2 == IF Len(over2) > 0 THEN s2.matched ELSE fm1
        fg2 == IF Len(over2) > 0 THEN s2.items ELSE fg
        ok2 == Len(over2) > 0 => s2.ok
        \* Outer Match (Infer->Matched)
        cid3 == ClassIdAfterLoop(cid2, fi)
        over3 == IouOverItems(bbox_origin, fi, FALSE)
        s3 == sanitize_bboxes(fm2, fi, over3, cid3, idx, bbox_origin)
        fm3 == IF Len(over3) > 0 THEN s3.matched ELSE fm2
        fi3 == IF Len(over3) > 0 THEN s3.items ELSE fi
        ok3 == Len(over3) > 0 => s3.ok
    IN  [ matched |-> fm3, gt_only |-> fg2, infer_only |-> fi3,
          class_id |-> cid3, ok |-> ok1 /\ ok2 /\ ok3 ]

RECURSIVE ResolveLoop(_, _, _, _)
\* the while loop of lines 373-432 run to its end (or to a failed assert)
ResolveLoop(fm, fg, fi, idx) ==
    IF idx > Len(fm)
    THEN [matched |-> fm, gt_only |-> fg, infer_only |-> fi, ok |-> TRUE]
    ELSE LET r == ResolveIteration(fm, fg, fi, idx)
         IN  IF r.ok
             THEN ResolveLoop(r.matched, r.gt_only, r.infer_only, idx + 1)
             ELSE [matched |-> fm, gt_only |-> fg, infer_only |-> fi, ok |-> FALSE]

\* lines 357-370: one flat list from a per-class table, classes ascending
\* with_occ: the table's rows are [box, occ] entries (line 359); otherwise
\* they are bare boxes and get occurrence count 1 (lines 364, 369)
FlattenTable(table, with_occ) ==
    LET cs == SortedSeq({ c \in Classes : Len(table[c]) > 0 })
        row(e, c) == IF with_occ
                     THEN [box |-> e.box, cls |-> c, occ |-> e.occ]
                     ELSE [box |-> e, cls |-> c, occ |-> 1]
    IN  Concat([i \in 1..Len(cs) |->
                   [j \in 1..Len(table[cs[i]]) |-> row(table[cs[i]][j], cs[i])]])

\* lines 439-455: a dict class -> boxes in the order the classes first appear,
\* kept as a sequence of [cls, boxes]
RECURSIVE GroupByClass(_, _)
GroupByClass(flat, acc) ==
    IF flat = << >> THEN acc
    ELSE LET r == Head(flat)
             k == FirstIndexOf([i \in 1..Len(acc) |-> acc[i].cls], r.cls)
         IN  GroupByClass(Tail(flat),
                 IF k = 0
                 THEN Append(acc, [cls |-> r.cls, boxes |-> << r.box >>])
                 ELSE [acc EXCEPT ![k].boxes = Append(@, r.box)])

\* ------------------------------------------------------------------------
\* generate_dataset, lines 172-189
\* ------------------------------------------------------------------------
\* faulty variant of xyminmax2xywh: the corners are kept as they are
xyminmax2xywhKeep(b) == b

\* line 179 (xyminmax2xywh); the boxes of the model are integers already, so
\* the int() of line 178 changes nothing
xyminmax2xywh(b) == << b[1], b[2], b[3] - b[1], b[4] - b[2] >>

\* the annotations of one results entry, without their ids
AnnotationsOf(bboxes) ==
    Concat([i \in 1..Len(bboxes) |->
               [j \in 1..Len(bboxes[i].boxes) |->
                   LET bbox == xyminmax2xywh(bboxes[i].boxes[j])
                   IN  [ area |-> bbox[3] * bbox[4], bbox |-> bbox,
                         category_id |-> bboxes[i].cls ]]])

\* ------------------------------------------------------------------------
\* Initial state: generate_dataset has collected the detections of one image
\* at every scale (lines 94-152) and is about to enter the loop of line 161
\* ------------------------------------------------------------------------
\* the annotations of one image: at most MaxGT items of the palette, an
\* item any number of times, listed class by class (line 211 takes each
\* class's boxes out of the list in their order, whatever lies between them)
GtInputs ==
    { g \in SeqsUpTo(GTItems, MaxGT) :
        \A i, j \in 1..Len(g) : i < j => g[i].cls <= g[j].cls }

\* the detection lists of one image: at most MaxDets detections of the
\* palette, each at most once, listed scale by scale in any order within a
\* scale
DetInputs ==
    { q \in SeqsUpTo(DetPalette, MaxDets) :
        /\ \A i, j \in 1..Len(q) : i < j => q[i] # q[j] /\ q[i].scale <= q[j].scale }

\* boxes_scales[scale][image_id], clses_scales[...] and scores_scales[...]
\* of lines 157-159, as one list of detections per scale
DetsByScale(q) == [s \in ScaleSet |-> SelectSeq(q, LAMBDA d : d.scale = s)]

Init ==
    /\ pc = "start"
    /\ rematch_thresh \in RematchThreshValues
    /\ o_items \in GtInputs
    /\ \E q \in DetInputs :
           /\ Len(o_items) + Len(q) <= MaxItems
           /\ bboxes_scales = DetsByScale(q)
    /\ batch_idx = 0
    /\ results = << >>
    /\ gt_nonmatched_objects = << >>
    /\ infer_nonmatched_objects = << >>
    /\ result_annotations = << >>
    /\ gt_objects = EmptyTable
    /\ infer_objects = [c \in Classes |-> [s \in ScaleSet |-> << >>]]
    /\ class_queue = << >>
    /\ class_id = 0
    /\ gt_bboxes = << >>
    /\ gt_idx = 1
    /\ match_table = << >>
    /\ gt_only_bbox_table = << >>
    /\ infer_bboxes_scales = [s \in ScaleSet |-> << >>]
    /\ infer_only_bbox_table = << >>
    /\ srcbbox_idx = 1
    /\ infer_only_extras = << >>
    /\ match_table_all = EmptyTable
    /\ gt_only_bbox_table_all = EmptyTable
    /\ infer_only_bbox_table_all = EmptyTable
    /\ flatten_matched_items = << >>
    /\ flatten_gt_only_items = << >>
    /\ flatten_infer_only_items = << >>
    /\ matched_item_idx = 1

Inputs == << rematch_thresh, o_items, bboxes_scales >>
Driver == << batch_idx, results, gt_nonmatched_objects, infer_nonmatched_objects,
             result_annotations >>
PerClass == << gt_bboxes, gt_idx, match_table, gt_only_bbox_table,
               infer_bboxes_scales, infer_only_bbox_table, srcbbox_idx,
               infer_only_extras >>
Tables == << match_table_all, gt_only_bbox_table_all, infer_only_bbox_table_all >>
Flat == << flatten_matched_items, flatten_gt_only_items, flatten_infer_only_items,
           matched_item_idx >>

\* ------------------------------------------------------------------------
\* multiscale_match
\* ------------------------------------------------------------------------
\* lines 198-238: a call starts; its locals are fresh
Begin ==
    /\ pc = "start"
    /\ gt_objects' = [c \in Classes |-> GtObjectsOf(o_items, c)]
    /\ infer_objects' = [c \in Classes |-> InferObjectsOf(bboxes_scales, c)]
    /\ class_queue' = SortedSeq(AllClassesOf(o_items, bboxes_scales))
    /\ class_id' = 0
    /\ gt_bboxes' = << >>
    /\ gt_idx' = 1
    /\ match_table' = << >>
    /\ gt_only_bbox_table' = << >>
    /\ infer_bboxes_scales' = [s \in ScaleSet |-> << >>]
    /\ infer_only_bbox_table' = << >>
    /\ srcbbox_idx' = 1
    /\ infer_only_extras' = << >>
    /\ match_table_all' = EmptyTable
    /\ gt_only_bbox_table_all' = EmptyTable
    /\ infer_only_bbox_table_all' = EmptyTable
    /\ flatten_matched_items' = << >>
    /\ flatten_gt_only_items' = << >>
    /\ flatten_infer_only_items' = << >>
    /\ matched_item_idx' = 1
    /\ pc' = IF class_queue' = << >> THEN "flatten" ELSE "class"
    /\ UNCHANGED << Inputs, Driver >>

\* lines 236-262: the next class and the branch it takes.  gt_bboxes and
\* infer_bboxes_scales are assigned in the third branch only and keep the
\* previous class's value otherwise.
ClassBegin ==
    /\ pc = "class"
    /\ LET c == Head(class_queue) IN
       /\ class_id' = c
       /\ class_queue' = Tail(class_queue)
       /\ infer_only_extras' = << >>
       /\ gt_idx' = 1
       /\ srcbbox_idx' = 1
       /\ IF ~InInferObjects(c)
          THEN /\ match_table' = [i \in 1..Len(gt_objects[c]) |-> << >>]
               /\ gt_only_bbox_table' = gt_objects[c]
               /\ infer_only_bbox_table' = << >>
               /\ pc' = "rematch"
               /\ UNCHANGED << gt_bboxes, infer_bboxes_scales >>
          ELSE IF ~InGtObjects(c)
          THEN /\ match_table' = << >>
               /\ gt_only_bbox_table' = << >>
               /\ infer_only_bbox_table' = ExtendByScale(infer_objects[c])
               /\ pc' = "rematch"
               /\ UNCHANGED << gt_bboxes, infer_bboxes_scales >>
          ELSE /\ gt_bboxes' = gt_objects[c]
               /\ infer_bboxes_scales' = infer_objects[c]
               /\ match_table' = [i \in 1..Len(gt_objects[c]) |-> << >>]
               /\ gt_only_bbox_table' = gt_objects[c]
               /\ infer_only_bbox_table' = << >>
               /\ pc' = "match"
    /\ UNCHANGED << Inputs, Driver, gt_objects, infer_objects, Tables, Flat >>

\* faulty variant of GtOnlyAfterMatch: removes every row equal to the box
GtOnlyAfterMatchEveryEqual(table, gt_newptr_idx) ==
    SelectSeq(table, LAMBDA b : b # table[gt_newptr_idx])

\* line 298: the matched ground-truth box leaves gt_only_bbox_table, one row
GtOnlyAfterMatch(table, gt_newptr_idx) == NpDelete(table, gt_newptr_idx)

\* lines 267-302: one ground-truth box of the class against every scale;
\* after the last one the detections left over become infer_only_bbox_table.
\* gt_idx counts from 1.
MatchGT ==
    /\ pc = "match"
    /\ LET gt_bbox_single == gt_bboxes[gt_idx]
           r == MatchScales(gt_bbox_single, SortedSeq(ScaleSet),
                            infer_bboxes_scales, << >>)
           over_iou_found == Len(r.matched) > 0
           gt_newptr_idx == FirstIndexOf(gt_only_bbox_table, gt_bbox_single)
       IN
       /\ match_table' = [match_table EXCEPT ![gt_idx] = r.matched]
       /\ infer_bboxes_scales' = r.residual
       /\ IF over_iou_found /\ gt_newptr_idx = 0
          THEN /\ pc' = "AssertionError"
               /\ UNCHANGED << gt_only_bbox_table, gt_idx, infer_only_bbox_table >>
          ELSE /\ gt_only_bbox_table' =
                     IF over_iou_found
                     THEN GtOnlyAfterMatch(gt_only_bbox_table, gt_newptr_idx)
                     ELSE gt_only_bbox_table
               /\ IF gt_idx < Len(gt_bboxes)
                  THEN /\ gt_idx' = gt_idx + 1
                       /\ pc' = "match"
                       /\ UNCHANGED infer_only_bbox_table
                  ELSE /\ infer_only_bbox_table' = ExtendByScale(r.residual)
                       /\ pc' = "rematch"
                       /\ UNCHANGED gt_idx
    /\ UNCHANGED << Inputs, Driver, gt_objects, infer_objects, class_queue,
                    class_id, gt_bboxes, srcbbox_idx, infer_only_extras,
                    Tables, Flat >>

\* lines 308-335: one iteration of the rematch loop.  srcbbox_idx counts
\* from 1.
RematchStep ==
    /\ pc = "rematch"
    /\ srcbbox_idx <= Len(infer_only_bbox_table)
    /\ LET r == RematchIteration(infer_only_bbox_table, srcbbox_idx,
                                 infer_only_extras, rematch_thresh)
       IN  /\ infer_only_bbox_table' = r.table
           /\ srcbbox_idx' = r.idx
           /\ infer_only_extras' = r.extras
    /\ UNCHANGED << pc, Inputs, Driver, gt_objects, infer_objects, class_queue,
                    class_id, gt_bboxes, gt_idx, match_table, gt_only_bbox_table,
                    infer_bboxes_scales, Tables, Flat >>

\* lines 337-345
MatchTableTarget ==
    LET hit == SelectSeq([i \in 1..Len(match_table) |-> i],
                         LAMBDA i : Len(match_table[i]) > 0)
    IN  [k \in 1..Len(hit) |->
            [box |-> gt_bboxes[hit[k]], occ |-> Len(match_table[hit[k]])]]
        \o [k \in 1..Len(infer_only_extras) |->
               [box |-> infer_only_extras[k], occ |-> 1]]

\* lines 337-351: the rematch loop is over; the class's tables are stored
ClassEnd ==
    /\ pc = "rematch"
    /\ srcbbox_idx > Len(infer_only_bbox_table)
    /\ match_table_all' = [match_table_all EXCEPT ![class_id] = MatchTableTarget]
    /\ gt_only_bbox_table_all' =
           [gt_only_bbox_table_all EXCEPT ![class_id] = gt_only_bbox_table]
    /\ infer_only_bbox_table_all' =
           [infer_only_bbox_table_all EXCEPT ![class_id] = infer_only_bbox_table]
    /\ pc' = IF class_queue = << >> THEN "flatten" ELSE "class"
    /\ UNCHANGED << Inputs, Driver, gt_objects, infer_objects, class_queue,
                    class_id, PerClass, Flat >>

\* lines 357-372
Flatten ==
    /\ pc = "flatten"
    /\ flatten_matched_items' =
           FlattenTable(match_table_all, TRUE)
    /\ flatten_gt_only_items' =
           FlattenTable(gt_only_bbox_table_all, FALSE)
    /\ flatten_infer_only_items' =
           FlattenTable(infer_only_bbox_table_all, FALSE)
    /\ matched_item_idx' = 1
    /\ pc' = "resolve"
    /\ UNCHANGED << Inputs, Driver, gt_objects, infer_objects, class_queue,
                    class_id, PerClass, Tables >>

\* lines 373-432: one iteration of the resolver loop.  matched_item_idx
\* counts from 1.
ResolveStep ==
    /\ pc = "resolve"
    /\ matched_item_idx <= Len(flatten_matched_items)
    /\ LET r == ResolveIteration(flatten_matched_items, flatten_gt_only_items,
                                 flatten_infer_only_items, matched_item_idx)
       IN  IF r.ok
           THEN /\ flatten_matched_items' = r.matched
                /\ flatten_gt_only_items' = r.gt_only
                /\ flatten_infer_only_items' = r.infer_only
                /\ class_id' = r.class_id
                /\ matched_item_idx' = matched_item_idx + 1
                /\ UNCHANGED pc
           ELSE /\ pc' = "AssertionError"
                /\ UNCHANGED << Flat, class_id >>
    /\ UNCHANGED << Inputs, Driver, gt_objects, infer_objects, class_queue,
                    PerClass, Tables >>

\* ------------------------------------------------------------------------
\* generate_dataset
\* ------------------------------------------------------------------------
\* boxes_allscale of line 157: the image has an entry at every scale
NumCalls == Len(scales)

\* lines 434-457 and 161-169: the call returns its three dicts, the driver
\* keeps the first in results and calls again while batch_idx is in range
Return ==
    /\ pc = "resolve"
    /\ matched_item_idx > Len(flatten_matched_items)
    /\ results' = Append(results, GroupByClass(flatten_matched_items, << >>))
    /\ gt_nonmatched_objects' = GroupByClass(flatten_gt_only_items, << >>)
    /\ infer_nonmatched_objects' = GroupByClass(flatten_infer_only_items, << >>)
    /\ batch_idx' = batch_idx + 1
    /\ pc' = IF batch_idx + 1 < NumCalls THEN "again" ELSE "organize"
    /\ UNCHANGED << Inputs, result_annotations, gt_objects, infer_objects,
                    class_queue, class_id, PerClass, Tables, Flat >>

\* lines 161-169, a later iteration of the loop: multiscale_match is called
\* with the arguments of the call before.  The call reads its arguments,
\* self.annotation_map and the thresholds and writes none of them (lines
\* 205-230 copy what they filter), so it goes through the steps of the call
\* before and returns what that call returned.
CallAgain ==
    /\ pc = "again"
    /\ results' = Append(results, results[Len(results)])
    /\ batch_idx' = batch_idx + 1
    /\ pc' = IF batch_idx + 1 < NumCalls THEN "again" ELSE "organize"
    /\ UNCHANGED << Inputs, gt_nonmatched_objects, infer_nonmatched_objects,
                    result_annotations, gt_objects, infer_objects, class_queue,
                    class_id, PerClass, Tables, Flat >>

\* lines 172-196: every box of every results entry becomes an annotation,
\* numbered from 1
Organize ==
    /\ pc = "organize"
    /\ LET all == Concat([i \in 1..Len(results) |-> AnnotationsOf(results[i])])
       IN  result_annotations' =
               [k \in 1..Len(all) |->
                   [ id |-> k, area |-> all[k].area, bbox |-> all[k].bbox,
                     category_id |-> all[k].category_id ]]
    /\ pc' = "done"
    /\ UNCHANGED << Inputs, batch_idx, results, gt_nonmatched_objects,
                    infer_nonmatched_objects, gt_objects, infer_objects,
                    class_queue, class_id, PerClass, Tables, Flat >>

Next ==
    \/ Begin
    \/ ClassBegin
    \/ MatchGT
    \/ RematchStep
    \/ ClassEnd
    \/ Flatten
    \/ ResolveStep
    \/ Return
    \/ CallAgain
    \/ Organize

Spec == Init /\ [][Next]_vars

\* ------------------------------------------------------------------------
\* multiscale_match as a function of its arguments and of self.scales.
\* infer_objects[class_id] is a dict: a list of [scale, boxes] entries in
\* the order the loop of line 214 inserted them, which is the order of
\* self.scales.
\* ------------------------------------------------------------------------
\* every order the caller can configure the scales in
ScaleOrders ==
    { p \in [1..Len(scales) -> ScaleSet] :
        \A i, j \in 1..Len(scales) : i # j => p[i] # p[j] }

\* lines 213-230 for one class: a scale gets a key when one of its kept
\* detections has the class
InferDictOf(dets, c, sc) ==
    LET has(s) == \E i \in 1..Len(dets[s]) : ScoreKept(dets[s][i]) /\ dets[s][i].cls = c
        keys == SelectSeq(sc, has)
    IN  [i \in 1..Len(keys) |->
            [scale |-> keys[i], boxes |-> InferObjectsOf(dets, c)[keys[i]]]]

\* faulty variant of SortedKeys: the keys in the order of insertion
KeysAsInserted(d) == [i \in 1..Len(d) |-> d[i].scale]

\* sorted(d.keys()) of lines 254, 270 and 301
SortedKeys(d) == SortedSeq({ d[i].scale : i \in 1..Len(d) })

\* the dict as a table scale -> boxes; a scale without a key has no boxes
DictTable(d) ==
    [s \in ScaleSet |->
        IF \E i \in 1..Len(d) : d[i].scale = s
        THEN d[CHOOSE i \in 1..Len(d) : d[i].scale = s].boxes
        ELSE << >>]

\* lines 254-255 and 301-302: the boxes of the keys ks, one key after the other
ExtendByKeys(by_scale, ks) == Concat([i \in 1..Len(ks) |-> by_scale[ks[i]]])

RECURSIVE MatchAllGT(_, _, _, _, _, _)
\* the loop of lines 267-298 over the ground-truth boxes from gt_idx on
MatchAllGT(gts, idx, ks, residual, table, gt_only) ==
    IF idx > Len(gts)
    THEN [match_table |-> table, gt_only |-> gt_only, residual |-> residual, ok |-> TRUE]
    ELSE LET r == MatchScales(gts[idx], ks, residual, << >>)
             ptr == FirstIndexOf(gt_only, gts[idx])
         IN  IF Len(r.matched) > 0 /\ ptr = 0
             THEN [match_table |-> table, gt_only |-> gt_only,
                   residual |-> residual, ok |-> FALSE]
             ELSE MatchAllGT(gts, idx + 1, ks, r.residual,
                             [table EXCEPT ![idx] = r.matched],
                             IF Len(r.matched) > 0
                             THEN GtOnlyAfterMatch(gt_only, ptr) ELSE gt_only)

\* lines 337-345 for given tables
MatchTableTargetOf(gts, table, extras) ==
    LET hit == SelectSeq([i \in 1..Len(table) |-> i], LAMBDA i : Len(table[i]) > 0)
    IN  [k \in 1..Len(hit) |-> [box |-> gts[hit[k]], occ |-> Len(table[hit[k]])]]
        \o [k \in 1..Len(extras) |-> [box |-> extras[k], occ |-> 1]]

\* lines 239-351 for one class: its three tables
ClassTablesOf(items, dets, c, sc, k) ==
    LET d == InferDictOf(dets, c, sc)
        gts == GtObjectsOf(items, c)
        none == [i \in 1..Len(gts) |-> << >>]
        m == IF Len(d) = 0
             THEN [match_table |-> none, gt_only |-> gts,
                   residual |-> DictTable(d), ok |-> TRUE]
             ELSE IF Len(gts) = 0
             THEN [match_table |-> << >>, gt_only |-> << >>,
                   residual |-> DictTable(d), ok |-> TRUE]
             ELSE MatchAllGT(gts, 1, SortedKeys(d), DictTable(d), none, gts)
        r == RematchLoop(ExtendByKeys(m.residual, SortedKeys(d)), 1, << >>, k)
    IN  [ matched |-> MatchTableTargetOf(gts, m.match_table, r.extras),
          gt_only |-> m.gt_only,
          infer_only |-> r.table,
          ok |-> m.ok ]

\* lines 198-432: the three flat lists the resolver ends with
MultiscaleMatchOf(items, dets, sc, k) ==
    LET t == [c \in Classes |-> ClassTablesOf(items, dets, c, sc, k)]
        r == ResolveLoop(FlattenTable([c \in Classes |-> t[c].matched], TRUE),
                         FlattenTable([c \in Classes |-> t[c].gt_only], FALSE),
                         FlattenTable([c \in Classes |-> t[c].infer_only], FALSE), 1)
    IN  [ matched |-> r.matched, gt_only |-> r.gt_only, infer_only |-> r.infer_only,
          ok |-> r.ok /\ \A c \in Classes : t[c].ok ]


\* ------------------------------------------------------------------------
\* The resolver on tables flattened in a given order of the classes
\* ------------------------------------------------------------------------
\* every order the classes can be visited in
ClassOrders ==
    { p \in [1..Cardinality(Classes) -> Classes] :
        \A i, j \in 1..Cardinality(Classes) : i # j => p[i] # p[j] }

\* lines 357-370 with the classes visited in the order p instead of sorted
FlattenInOrder(table, with_occ, p) ==
    LET cs == SelectSeq(p, LAMBDA c : Len(table[c]) > 0)
        row(e, c) == IF with_occ
                     THEN [box |-> e.box, cls |-> c, occ |-> e.occ]
                     ELSE [box |-> e, cls |-> c, occ |-> 1]
    IN  Concat([i \in 1..Len(cs) |->
                   [j \in 1..Len(table[cs[i]]) |-> row(table[cs[i]][j], cs[i])]])

\* lines 357-432 on the per-class tables, the classes flattened in the order p
ResolveInOrder(matched, gt_only, infer_only, p) ==
    ResolveLoop(FlattenInOrder(matched, TRUE, p),
                FlattenInOrder(gt_only, FALSE, p),
                FlattenInOrder(infer_only, FALSE, p), 1)

\* ------------------------------------------------------------------------
\* Properties
\* ------------------------------------------------------------------------
\* the resolver loop of lines 373-432 has finished
ResolverDone ==
    \/ pc = "resolve" /\ matched_item_idx > Len(flatten_matched_items)
    \/ pc \in {"again", "organize", "done"}

Overlap(a, b) == IouGtThresh(iou_np(a, b))

\* the three flat lists, one after the other
AllFlat == flatten_matched_items \o flatten_gt_only_items \o flatten_infer_only_items

\* the number of boxes the per-class tables held before the resolver
TableCount(table) ==
    LET cs == SortedSeq(Classes) IN SumSeq([i \in 1..Len(cs) |-> Len(table[cs[i]])])

\* C1, as stated: after the resolver has finished, any two distinct
\* surviving items of the three flat lists taken together, two items of one
\* list included, have an IoU of at most iou_thresh.
C1_AllPairsDisjoint ==
    ResolverDone =>
        \A i, j \in 1..Len(AllFlat) :
            i < j => ~Overlap(AllFlat[i].box, AllFlat[j].box)

\* C1, amended: after the resolver has finished, no surviving gt_only or
\* infer_only item has an IoU above iou_thresh with a surviving matched
\* item, and two surviving matched items have an IoU above iou_thresh only
\* if their coordinates are identical.
C1_MatchedDisjoint ==
    ResolverDone =>
        /\ \A m \in Range(flatten_matched_items) :
               \A o \in Range(flatten_gt_only_items) \cup Range(flatten_infer_only_items) :
                   ~Overlap(m.box, o.box)
        /\ \A i, j \in 1..Len(flatten_matched_items) :
               (i < j /\ Overlap(flatten_matched_items[i].box,
                                 flatten_matched_items[j].box))
                   => flatten_matched_items[i].box = flatten_matched_items[j].box

\* C1 witness: the resolver has finished after removing an item, and a
\* matched item survives next to a gt_only or infer_only item
C1_Witness ==
    /\ ResolverDone
    /\ Len(flatten_matched_items) > 0
    /\ Len(flatten_gt_only_items) + Len(flatten_infer_only_items) > 0
    /\ Len(AllFlat) < TableCount(match_table_all) + TableCount(gt_only_bbox_table_all)
                       + TableCount(infer_only_bbox_table_all)

\* C2: running the resolver loop again on the three flat lists it produced
\* removes no item and rewrites no item.
C2_Idempotent ==
    ResolverDone =>
        LET again == ResolveLoop(flatten_matched_items, flatten_gt_only_items,
                                 flatten_infer_only_items, 1)
        IN  /\ again.ok
            /\ again.matched = flatten_matched_items
            /\ again.gt_only = flatten_gt_only_items
            /\ again.infer_only = flatten_infer_only_items

\* C2 witness: the first run of the resolver removed an item and rewrote the
\* class of a matched item, and items of two lists survive
C2_Witness ==
    /\ pc = "done"
    /\ Len(flatten_matched_items) > 0
    /\ Len(flatten_gt_only_items) + Len(flatten_infer_only_items) > 0
    /\ Len(AllFlat) < TableCount(match_table_all) + TableCount(gt_only_bbox_table_all)
                       + TableCount(infer_only_bbox_table_all)
    /\ \E m \in Range(flatten_matched_items) :
           \A e \in Range(match_table_all[m.cls]) : e.box # m.box

\* the detections of class c in the image's input that are above conf_thresh
KeptCountOfClass(c) ==
    LET ss == SortedSeq(ScaleSet)
    IN  SumSeq([k \in 1..Len(ss) |->
            Cardinality({ i \in 1..Len(bboxes_scales[ss[k]]) :
                            /\ bboxes_scales[ss[k]][i].cls = c
                            /\ bboxes_scales[ss[k]][i].score > ConfThresh })])

\* the detections of class c in the image's input, whatever their score
GivenCountOfClass(c) ==
    LET ss == SortedSeq(ScaleSet)
    IN  SumSeq([k \in 1..Len(ss) |->
            Cardinality({ i \in 1..Len(bboxes_scales[ss[k]]) :
                            bboxes_scales[ss[k]][i].cls = c })])

\* the ground-truth boxes of class c in the image's annotations
GtCountOfClass(c) == Cardinality({ i \in 1..Len(o_items) : o_items[i].cls = c })

\* the ground-truth boxes of the current class matched by some scale
MatchedGtIndices == { i \in 1..Len(match_table) : Len(match_table[i]) > 0 }

\* the detections consumed by the ground-truth matches of the current class
ConsumedCount == SumSeq([i \in 1..Len(match_table) |-> Len(match_table[i])])

\* the detections of the current class no ground-truth box has consumed
ResidualCount ==
    LET ss == SortedSeq(ScaleSet)
    IN  SumSeq([k \in 1..Len(ss) |-> Len(infer_bboxes_scales[ss[k]])])

\* the rematch loop of the current class is about to start
RematchEntry == pc = "rematch" /\ srcbbox_idx = 1 /\ infer_only_extras = << >>

\* the rematch loop of the current class has ended
RematchExit == pc = "rematch" /\ srcbbox_idx > Len(infer_only_bbox_table)

\* C3: for the class being processed, once the GT matcher is through, the
\* matched entries that come from ground-truth boxes plus the gt_only boxes
\* are as many as the ground-truth boxes of the class.
C3_GtConserved ==
    pc = "rematch" =>
        /\ Cardinality(MatchedGtIndices) + Len(gt_only_bbox_table)
               = GtCountOfClass(class_id)
        /\ Len(MatchTableTarget) - Len(infer_only_extras) = Cardinality(MatchedGtIndices)

\* C3 witness: two ground-truth boxes of the class have the same
\* coordinates, one was matched and the other is in gt_only
C3_Witness ==
    /\ RematchExit
    /\ Len(gt_bboxes) = 2 /\ gt_bboxes[1] = gt_bboxes[2]
    /\ GtCountOfClass(class_id) = 2
    /\ Cardinality(MatchedGtIndices) = 1
    /\ gt_only_bbox_table = << gt_bboxes[1] >>

\* C4: every detection of the class is accounted for once.  Entering the
\* class, the kept detections are the consumed ones plus the unconsumed
\* ones; a step of the GT matcher keeps that sum; a step of the rematcher
\* either leaves the table alone or appends its cursor box to the promoted
\* boxes and removes exactly the boxes whose IoU with it reaches iou_thresh;
\* and when the class is stored no box left in infer_only equals a promoted
\* box.
C4_Step ==
    LET Unconsumed == IF pc = "match" THEN ResidualCount
                      ELSE Len(infer_only_bbox_table)
    IN
    /\ (pc = "class" /\ pc' \in {"match", "rematch"}) =>
           KeptCountOfClass(class_id') = ConsumedCount' + Unconsumed'
    /\ pc = "match" =>
           /\ pc' \in {"match", "rematch"}
           /\ ConsumedCount' + Unconsumed' = ConsumedCount + Unconsumed
    /\ (pc = "rematch" /\ pc' = "rematch") =>
           LET srcbbox == infer_only_bbox_table[srcbbox_idx]
               member(b) == IouGeThresh(iou_np(srcbbox, b))
           IN  \/ /\ infer_only_bbox_table' = infer_only_bbox_table
                  /\ infer_only_extras' = infer_only_extras
               \/ /\ infer_only_extras' = Append(infer_only_extras, srcbbox)
                  /\ infer_only_bbox_table' =
                         SelectSeq(infer_only_bbox_table, LAMBDA b : ~member(b))
                  /\ Len(infer_only_bbox_table') < Len(infer_only_bbox_table)
    /\ (pc = "rematch" /\ pc' # "rematch") =>
           /\ Range(infer_only_bbox_table) \cap Range(infer_only_extras) = {}
           /\ infer_only_bbox_table_all'[class_id] = infer_only_bbox_table
           /\ Len(match_table_all'[class_id])
                  = Cardinality(MatchedGtIndices) + Len(infer_only_extras)

C4_Accounted == [][C4_Step]_vars

\* C4 witness: in one class a detection was consumed by a ground-truth match
\* and another one was promoted
C4_Witness ==
    /\ RematchExit
    /\ ConsumedCount > 0
    /\ Len(infer_only_extras) > 0
    /\ KeptCountOfClass(class_id) >= 3

\* the groups of n boxes of table (by position) that overlap pairwise with
\* an IoU of at least iou_thresh
PairwiseGroups(table, n) ==
    { S \in SUBSET (1..Len(table)) :
        /\ Cardinality(S) = n
        /\ \A i, j \in S : IouGeThresh(iou_np(table[i], table[j])) }

\* no box of table outside S reaches iou_thresh with a box of S
Isolated(table, S) ==
    \A i \in S : \A j \in (1..Len(table)) \ S :
        ~IouGeThresh(iou_np(table[i], table[j]))

\* no box of table outside S reaches iou_thresh with every box of S
Maximal(table, S) ==
    \A j \in (1..Len(table)) \ S :
        \E i \in S : ~IouGeThresh(iou_np(table[i], table[j]))

\* the rematcher promoted the group S of table as one entry: its first box
\* is the only promoted box with the coordinates of a box of S, and no box
\* with such coordinates is left
PromotedAsOne(table, S, r) ==
    LET vals == { table[i] : i \in S }
        first == table[CHOOSE i \in S : \A j \in S : i <= j]
    IN  /\ Cardinality({ k \in 1..Len(r.extras) : r.extras[k] \in vals }) = 1
        /\ first \in Range(r.extras)
        /\ Range(r.table) \cap vals = {}

C6_SmallGroupKept ==
    RematchEntry =>
        \A S \in PairwiseGroups(infer_only_bbox_table, rematch_thresh - 1) :
            Isolated(infer_only_bbox_table, S) =>
                LET r == RematchLoop(infer_only_bbox_table, 1, << >>, rematch_thresh)
                    vals == { infer_only_bbox_table[i] : i \in S }
                IN  /\ Range(r.extras) \cap vals = {}
                    /\ Cardinality({ k \in 1..Len(r.table) : r.table[k] \in vals })
                           = rematch_thresh - 1

\* C7: a step of the GT matcher matches the ground-truth box at exactly the
\* scales that still hold a detection of the class with an IoU of at least
\* iou_thresh, consumes one detection at each of them and none elsewhere,
\* and takes one box with its coordinates out of gt_only iff some scale
\* matched; when the class's matcher is through, the box has a matched entry
\* iff some scale matched it, with the number of those scales as its count.
\* A class without kept detections matches nothing.
C7_Step ==
    /\ pc = "match" =>
           LET g == gt_bboxes[gt_idx]
               S == { s \in ScaleSet :
                        \E i \in 1..Len(infer_bboxes_scales[s]) :
                            IouGeThresh(iou_np(g, infer_bboxes_scales[s][i])) }
               hit == IF S = {} THEN 0 ELSE 1
               copies(t) == Cardinality({ i \in 1..Len(t) : t[i] = g })
           IN  /\ pc' \in {"match", "rematch"}
               /\ Range(match_table'[gt_idx]) = S
               /\ Len(match_table'[gt_idx]) = Cardinality(S)
               /\ \A s \in ScaleSet :
                      Len(infer_bboxes_scales'[s])
                          = Len(infer_bboxes_scales[s]) - (IF s \in S THEN 1 ELSE 0)
               /\ Len(gt_only_bbox_table') = Len(gt_only_bbox_table) - hit
               /\ copies(gt_only_bbox_table') = copies(gt_only_bbox_table) - hit
               /\ pc' = "rematch" =>
                      \A i \in 1..Len(gt_bboxes) :
                          Len(match_table'[i]) > 0
                              <=> [box |-> gt_bboxes[i], occ |-> Len(match_table'[i])]
                                      \in Range(MatchTableTarget')
    /\ (pc = "class" /\ pc' = "rematch") =>
           /\ MatchTableTarget' = << >>
           /\ Len(gt_only_bbox_table') = GtCountOfClass(class_id')

C7_MatchedIffOverlap == [][C7_Step]_vars

\* C7 witness: one ground-truth box of the class, matched at two scales and
\* at no third, with nothing left in gt_only and infer_only
C7_Witness ==
    /\ RematchExit
    /\ Len(gt_bboxes) = 1 /\ GtCountOfClass(class_id) = 1
    /\ KeptCountOfClass(class_id) = 2
    /\ MatchTableTarget = << [box |-> gt_bboxes[1], occ |-> 2] >>
    /\ gt_only_bbox_table = << >>
    /\ infer_only_bbox_table = << >>

\* C8, as stated: when the current matched item has class 1 and occurrence
\* count 3 and overlaps one gt_only item of class 2 and nothing else, the
\* resolver's step removes that gt_only item and leaves the matched item
\* with class 1.
C8_Step ==
    LET I == flatten_matched_items[matched_item_idx]
        over_gt == { k \in 1..Len(flatten_gt_only_items) :
                       Overlap(I.box, flatten_gt_only_items[k].box) }
    IN  ( /\ pc = "resolve"
          /\ matched_item_idx <= Len(flatten_matched_items)
          /\ I.cls = 1 /\ I.occ = 3
          /\ Cardinality(over_gt) = 1
          /\ \A k \in over_gt : flatten_gt_only_items[k].cls = 2
          /\ \A k \in 1..Len(flatten_matched_items) :
                 k # matched_item_idx => ~Overlap(I.box, flatten_matched_items[k].box)
          /\ \A k \in 1..Len(flatten_infer_only_items) :
                 ~Overlap(I.box, flatten_infer_only_items[k].box) )
        => /\ Len(flatten_gt_only_items') = Len(flatten_gt_only_items) - 1
           /\ \A o \in Range(flatten_gt_only_items') : ~Overlap(I.box, o.box)
           /\ flatten_matched_items'[matched_item_idx].box = I.box
           /\ flatten_matched_items'[matched_item_idx].cls = 1

C8_DominantKept == [][C8_Step]_vars

\* the (xywh box, class) pairs of a flat list
LabelsOf(flat) ==
    { << << r.box[1], r.box[2], r.box[3] - r.box[1], r.box[4] - r.box[2] >>, r.cls >> :
        r \in Range(flat) }

\* the (xywh box, class) pairs of the annotations
AnnotationLabels == { << a.bbox, a.category_id >> : a \in Range(result_annotations) }

\* C9, as stated: the boxes generate_dataset turns into annotations are the
\* resolved matched boxes and the resolved infer_only boxes, and no gt_only
\* box.
C9_MatchedAndInferOnly ==
    pc = "done" =>
        /\ AnnotationLabels
               = LabelsOf(flatten_matched_items) \cup LabelsOf(flatten_infer_only_items)
        /\ AnnotationLabels \cap LabelsOf(flatten_gt_only_items) = {}

\* C9, amended: the boxes generate_dataset turns into annotations are the
\* resolved matched boxes only; no annotation has the box of a resolved
\* gt_only or infer_only item.
C9_MatchedOnly ==
    pc = "done" =>
        /\ AnnotationLabels = LabelsOf(flatten_matched_items)
        /\ \A a \in AnnotationLabels :
               \A o \in LabelsOf(flatten_gt_only_items)
                           \cup LabelsOf(flatten_infer_only_items) :
                   a[1] # o[1]

\* C9 witness: the annotations are written and the resolver left a matched
\* and an infer_only item
C9_Witness ==
    /\ pc = "done"
    /\ result_annotations # << >>
    /\ flatten_matched_items # << >>
    /\ flatten_infer_only_items # << >>

\* C10, as stated: every detection given for the image takes part in the
\* matching of its class whatever its score: entering the rematcher, the
\* detections consumed by ground truth and the unconsumed ones are as many
\* as the detections of the class.
C10_NoScoreFilter ==
    RematchEntry =>
        ConsumedCount + Len(infer_only_bbox_table) = GivenCountOfClass(class_id)

\* C10, amended: the detections that take part are those whose score is
\* above conf_thresh; a detection with a score of conf_thresh or less is
\* dropped before the matching.
C10_ScoreFiltered ==
    RematchEntry =>
        ConsumedCount + Len(infer_only_bbox_table) = KeptCountOfClass(class_id)

\* C10 witness: the class has a detection below conf_thresh and one above
\* it, and the matcher is through
C10_Witness ==
    /\ RematchEntry
    /\ KeptCountOfClass(class_id) > 0
    /\ GivenCountOfClass(class_id) > KeptCountOfClass(class_id)

\* C11: the three flat lists the resolver ends with are a function of the
\* image's annotations, its per-scale detections and rematch_thresh, and
\* every order of the configured scales gives that function the same
\* per-class detections in the same order of scales: the keys it visits
\* (sorted) and the boxes under each key do not depend on the order of
\* insertion.
C11_FunctionOfInputs ==
    /\ pc = "start" =>
           \A p \in ScaleOrders : \A c \in Classes :
               LET d == InferDictOf(bboxes_scales, c, p)
                   e == InferDictOf(bboxes_scales, c, scales)
               IN  /\ SortedKeys(d) = SortedKeys(e)
                   /\ DictTable(d) = DictTable(e)
                   /\ DictTable(d) = InferObjectsOf(bboxes_scales, c)
                   /\ ExtendByKeys(DictTable(d), SortedKeys(d))
                          = ExtendByScale(InferObjectsOf(bboxes_scales, c))
    /\ pc = "organize" =>
           LET f == MultiscaleMatchOf(o_items, bboxes_scales, scales, rematch_thresh)
           IN  /\ f.ok
               /\ flatten_matched_items = f.matched
               /\ flatten_gt_only_items = f.gt_only
               /\ flatten_infer_only_items = f.infer_only
               /\ \A i \in 1..Len(results) :
                      results[i] = GroupByClass(f.matched, << >>)

\* C11 witness: the class has kept detections with different boxes at two
\* scales, the later-configured scale being the smaller one, and the call
\* has returned a matched and an infer_only item
C11_Witness ==
    /\ pc = "organize"
    /\ flatten_matched_items # << >>
    /\ flatten_infer_only_items # << >>
    /\ \E c \in Classes :
           /\ infer_objects[c][320] # << >>
           /\ infer_objects[c][640] # << >>
           /\ infer_objects[c][320] # infer_objects[c][640]

\* the classes with the highest count in a list of votes
TopClasses(all_classes) ==
    LET count(c) == Cardinality({ i \in 1..Len(all_classes) : all_classes[i] = c })
    IN  { c \in Range(all_classes) : \A d \in Range(all_classes) : count(d) <= count(c) }

\* the rows of a flat list whose IoU with box is above iou_thresh
OverRows(flat, box) == SelectSeq(flat, LAMBDA r : Overlap(box, r.box))

\* the resolver is about to run an iteration for its current item
ResolveEntry == pc = "resolve" /\ matched_item_idx <= Len(flatten_matched_items)

\* C12, as stated: in a step of the resolver whose current item I overlaps
\* no other matched item, the class I's entry gets from the merge with
\* gt_only and then with infer_only is a most frequent class of I's own
\* class (as updated by the merge before) counted once and the class of
\* every overlapping item counted occurrence_count times.
C12_Step ==
    LET I == flatten_matched_items[matched_item_idx]
        over1 == SelectSeq(OverRows(flatten_matched_items, I.box),
                           LAMBDA r : r.box # I.box)
        over2 == OverRows(flatten_gt_only_items, I.box)
        over3 == OverRows(flatten_infer_only_items, I.box)
        after2 == IF over2 = << >> THEN { I.cls }
                  ELSE TopClasses(VoteClasses(I.cls, over2))
        after3 == IF over3 = << >> THEN after2
                  ELSE UNION { TopClasses(VoteClasses(c, over3)) : c \in after2 }
    IN  (ResolveEntry /\ over1 = << >> /\ Len(over2) + Len(over3) > 0)
            => flatten_matched_items'[matched_item_idx].cls \in after3

C12_VoteWithOwnClass == [][C12_Step]_vars

\* C13, as stated: in a step of the resolver whose current item I overlaps
\* other matched items (and no gt_only or infer_only item), every
\* overlapping item is gone from matched after the step and I's entry reads
\* I's box, a most frequent class of the vote, occurrence count 1.
C13_Step ==
    LET I == flatten_matched_items[matched_item_idx]
        over1 == SelectSeq(OverRows(flatten_matched_items, I.box),
                           LAMBDA r : r.box # I.box)
    IN  ( /\ ResolveEntry
          /\ over1 # << >>
          /\ OverRows(flatten_gt_only_items, I.box) = << >>
          /\ OverRows(flatten_infer_only_items, I.box) = << >> )
        => /\ \A r \in Range(flatten_matched_items') :
                  Overlap(I.box, r.box) => r.box = I.box
           /\ Len(flatten_matched_items') = Len(flatten_matched_items) - Len(over1)
           /\ flatten_matched_items'[matched_item_idx].box = I.box
           /\ flatten_matched_items'[matched_item_idx].occ = 1
           /\ flatten_matched_items'[matched_item_idx].cls
                  \in TopClasses(VoteClasses(I.cls, over1))

C13_InnerMergeRewrites == [][C13_Step]_vars

\* the (class, box) labels of a flat list with the number of rows of each
LabelCounts(flat) ==
    { << r.cls, r.box, Cardinality({ i \in 1..Len(flat) :
                                       flat[i].cls = r.cls /\ flat[i].box = r.box }) >> :
        r \in Range(flat) }

\* the resolver, run on the stored per-class tables flattened in the class
\* order p, ends with the labels the three flat lists of the state have
SameResultInOrder(p) ==
    LET r == ResolveInOrder(match_table_all, gt_only_bbox_table_all,
                            infer_only_bbox_table_all, p)
    IN  /\ r.ok
        /\ LabelCounts(r.matched) = LabelCounts(flatten_matched_items)
        /\ LabelCounts(r.gt_only) = LabelCounts(flatten_gt_only_items)
        /\ LabelCounts(r.infer_only) = LabelCounts(flatten_infer_only_items)

\* the flattened tables give the resolver nothing to merge: no matched
\* entry has an IoU above iou_thresh with a gt_only or infer_only entry or
\* with a matched entry of other coordinates
NoConflict ==
    \A c \in Classes : \A m \in Range(match_table_all[c]) : \A d \in Classes :
        /\ \A n \in Range(match_table_all[d]) : Overlap(m.box, n.box) => n.box = m.box
        /\ \A b \in Range(gt_only_bbox_table_all[d]) \cup Range(infer_only_bbox_table_all[d]) :
               ~Overlap(m.box, b)

\* C14, as stated: flattening the per-class tables in any other order of
\* the classes gives the same resolved matched, gt_only and infer_only
\* tables (the same boxes under the same classes).
C14_OrderIrrelevant ==
    pc = "organize" => \A p \in ClassOrders : SameResultInOrder(p)

\* C14, amended: that holds when the tables give the resolver nothing to
\* merge (no matched entry overlaps a gt_only or infer_only entry or a
\* matched entry of other coordinates above iou_thresh).
C14_OrderIrrelevantWithoutConflict ==
    (pc = "organize" /\ NoConflict) => \A p \in ClassOrders : SameResultInOrder(p)

\* C14 witness: the call is over, matched entries of two classes with the
\* same coordinates and an entry of another list exist, and nothing was
\* there to merge
C14_Witness ==
    /\ pc = "organize"
    /\ NoConflict
    /\ \E c, d \in Classes :
           /\ c # d
           /\ \E m \in Range(match_table_all[c]) : \E n \in Range(match_table_all[d]) :
                  m.box = n.box
    /\ Len(flatten_matched_items) >= 2

\* the boxes of the image's detections of class c above conf_thresh, the
\* scales ascending and each scale's detections in their given order
KeptBoxesOfClass(c) ==
    LET ss == SortedSeq(ScaleSet)
        kept(s) == SelectSeq(bboxes_scales[s],
                             LAMBDA d : d.cls = c /\ d.score > ConfThresh)
    IN  Concat([k \in 1..Len(ss) |-> [i \in 1..Len(kept(ss[k])) |-> kept(ss[k])[i].box]])

\* the current class has detections above conf_thresh and no ground truth
NoGtClass(c) == GtCountOfClass(c) = 0 /\ KeptCountOfClass(c) > 0

\* C15, as stated: for a class with detections and no ground truth, every
\* detection is in infer_only and the rematcher promotes none of them.
C15_NoRematchWithoutGT ==
    (pc = "rematch" /\ NoGtClass(class_id)) =>
        /\ infer_only_extras = << >>
        /\ infer_only_bbox_table = KeptBoxesOfClass(class_id)

\* C15, amended: for such a class every detection above conf_thresh goes
\* to infer_only, the scales ascending, nothing is matched or gt_only, and
\* the rematcher then runs on that list as for every class: a step promotes
\* the cursor box when the boxes that reach iou_thresh with it are at least
\* as many as rematch_thresh or as the list is long, whichever is smaller,
\* and removes those boxes; otherwise the cursor moves on.
C15_Step ==
    /\ (pc = "class" /\ pc' = "rematch" /\ NoGtClass(class_id')) =>
           /\ infer_only_bbox_table' = KeptBoxesOfClass(class_id')
           /\ infer_only_extras' = << >>
           /\ srcbbox_idx' = 1
           /\ match_table' = << >>
           /\ gt_only_bbox_table' = << >>
    /\ (pc = "rematch" /\ NoGtClass(class_id)
           /\ srcbbox_idx <= Len(infer_only_bbox_table)) =>
           LET srcbbox == infer_only_bbox_table[srcbbox_idx]
               near == { i \in 1..Len(infer_only_bbox_table) :
                           IouGeThresh(iou_np(srcbbox, infer_only_bbox_table[i])) }
           IN  IF Cardinality(near) >= Min2(rematch_thresh, Len(infer_only_bbox_table))
               THEN /\ infer_only_extras' = Append(infer_only_extras, srcbbox)
                    /\ Len(infer_only_bbox_table') < Len(infer_only_bbox_table)
                    /\ \A b \in Range(infer_only_bbox_table') :
                           ~IouGeThresh(iou_np(srcbbox, b))
                    /\ srcbbox_idx' = srcbbox_idx
               ELSE /\ infer_only_extras' = infer_only_extras
                    /\ infer_only_bbox_table' = infer_only_bbox_table
                    /\ srcbbox_idx' = srcbbox_idx + 1
    /\ (pc = "rematch" /\ pc' # "rematch" /\ NoGtClass(class_id)) =>
           /\ gt_only_bbox_table_all'[class_id] = << >>
           /\ infer_only_bbox_table_all'[class_id] = infer_only_bbox_table
           /\ match_table_all'[class_id]
                  = [k \in 1..Len(infer_only_extras) |->
                        [box |-> infer_only_extras[k], occ |-> 1]]

C15_RematchedWithoutGT == [][C15_Step]_vars

\* C15 witness: a class without ground truth has detections with different
\* boxes at two scales, and the rematcher has promoted one of them
C15_Witness ==
    /\ RematchExit
    /\ NoGtClass(class_id)
    /\ infer_objects[class_id][320] = << BoxB >>
    /\ infer_objects[class_id][480] = << BoxA >>
    /\ infer_only_extras # << >>
    /\ match_table = << >>

\* C16, as stated: generate_dataset reconciles the image once: results
\* holds one entry for it, and every resolved matched box is one annotation.
C16_ReconciledOnce ==
    pc = "done" =>
        /\ Len(results) = 1
        /\ Len(result_annotations) = Len(flatten_matched_items)

\* C17: a step of the resolver leaves its current item I with I's class of
\* before the step or with the class of an item (a matched item of other
\* coordinates, a gt_only or an infer_only item) whose IoU with I is above
\* iou_thresh; the step changes the class of no other matched item.
C17_Step ==
    LET I == flatten_matched_items[matched_item_idx]
        over == SelectSeq(OverRows(flatten_matched_items, I.box),
                          LAMBDA r : r.box # I.box)
                \o OverRows(flatten_gt_only_items, I.box)
                \o OverRows(flatten_infer_only_items, I.box)
    IN  ResolveEntry =>
            /\ pc' = "resolve"
            /\ flatten_matched_items'[matched_item_idx].box = I.box
            /\ flatten_matched_items'[matched_item_idx].cls
                   \in {I.cls} \cup { over[i].cls : i \in 1..Len(over) }
            /\ \A r \in Range(flatten_matched_items') :
                   r \in Range(flatten_matched_items)
                       \/ r = flatten_matched_items'[matched_item_idx]

C17_ClassFromOverlap == [][C17_Step]_vars

\* C17 witness: the resolver is through; a matched item of class 1 merged
\* with a gt_only item of class 1 while a gt_only item of class 2 that it
\* does not overlap was last in the list, and kept class 1
C17_Witness ==
    /\ ResolverDone
    /\ flatten_matched_items = << [box |-> BoxB, cls |-> 1, occ |-> 1] >>
    /\ gt_only_bbox_table_all[1] = << BoxB >>
    /\ gt_only_bbox_table_all[2] = << BoxC >>
    /\ flatten_gt_only_items = << [box |-> BoxC, cls |-> 2, occ |-> 1] >>

\* what C18 says of the lists the resolver ends with
C18_Final ==
    ResolverDone =>
        /\ \A m \in Range(flatten_matched_items) :
               /\ \A o \in Range(flatten_gt_only_items) : ~Overlap(m.box, o.box)
               /\ \A o \in Range(flatten_infer_only_items) : ~Overlap(m.box, o.box)
        /\ \A i \in 1..Len(flatten_matched_items) :
               \A j \in (i + 1)..Len(flatten_matched_items) :
                   Overlap(flatten_matched_items[i].box, flatten_matched_items[j].box)
                       => flatten_matched_items[i].box = flatten_matched_items[j].box

\* C18: a step of the resolver removes no matched row at or before the
\* cursor (the rows before it stay as they are, the row at it keeps its box)
\* and moves the cursor one row on, so every surviving matched row is the
\* current item once; after the step nothing that is left overlaps the
\* current item except matched rows with its coordinates; and when the
\* resolver is through, no gt_only or infer_only item overlaps a matched
\* item above iou_thresh and two matched items that overlap above
\* iou_thresh have the same coordinates.
C18_Step ==
    /\ ResolveEntry =>
           LET I == flatten_matched_items[matched_item_idx] IN
           /\ matched_item_idx' = matched_item_idx + 1
           /\ Len(flatten_matched_items') >= matched_item_idx
           /\ \A i \in 1..(matched_item_idx - 1) :
                  flatten_matched_items'[i] = flatten_matched_items[i]
           /\ flatten_matched_items'[matched_item_idx].box = I.box
           /\ \A r \in Range(flatten_matched_items') :
                  Overlap(I.box, r.box) => r.box = I.box
           /\ \A r \in Range(flatten_gt_only_items') \cup Range(flatten_infer_only_items') :
                  ~Overlap(I.box, r.box)
    /\ C18_Final'

C18_ResolvedAndVisitedOnce == [][C18_Step]_vars

\* C18 witness: the resolver is through, it removed a matched item and a
\* gt_only or infer_only item, and two matched items are left
C18_Witness ==
    /\ ResolverDone
    /\ Len(flatten_matched_items) >= 2
    /\ TableCount(match_table_all) > Len(flatten_matched_items)
    /\ TableCount(gt_only_bbox_table_all) + TableCount(infer_only_bbox_table_all)
           > Len(flatten_gt_only_items) + Len(flatten_infer_only_items)

\* C19: an iteration of the rematcher either moves the cursor one box on
\* and leaves the list alone or removes at least one box and leaves the
\* cursor, so the number of boxes from the cursor on goes down with every
\* iteration; an iteration of the resolver moves its cursor one row on and
\* makes none of the three lists longer, so the number of matched rows from
\* the cursor on goes down with every iteration.  Both loops run while that
\* number is positive.
C19_Step ==
    /\ (pc = "rematch" /\ srcbbox_idx <= Len(infer_only_bbox_table)) =>
           /\ pc' = "rematch"
           /\ \/ /\ srcbbox_idx' = srcbbox_idx + 1
                 /\ infer_only_bbox_table' = infer_only_bbox_table
              \/ /\ srcbbox_idx' = srcbbox_idx
                 /\ Len(infer_only_bbox_table') < Len(infer_only_bbox_table)
           /\ Len(infer_only_bbox_table') - srcbbox_idx'
                  < Len(infer_only_bbox_table) - srcbbox_idx
    /\ ResolveEntry =>
           /\ pc' = "resolve"
           /\ matched_item_idx' = matched_item_idx + 1
           /\ Len(flatten_matched_items') <= Len(flatten_matched_items)
           /\ Len(flatten_gt_only_items') <= Len(flatten_gt_only_items)
           /\ Len(flatten_infer_only_items') <= Len(flatten_infer_only_items)
           /\ Len(flatten_matched_items') - matched_item_idx'
                  < Len(flatten_matched_items) - matched_item_idx
    /\ (pc = "rematch" /\ srcbbox_idx > Len(infer_only_bbox_table)) => pc' # "rematch"
    /\ (pc = "resolve" /\ matched_item_idx > Len(flatten_matched_items)) => pc' # "resolve"

C19_LoopsTerminate == [][C19_Step]_vars

\* C19 witness: the call has returned after a rematcher that removed boxes
\* and also moved its cursor, and a resolver that removed an item
C19_Witness ==
    /\ pc = "done"
    /\ \E c \in Classes :
           /\ infer_only_bbox_table_all[c] # << >>
           /\ \E e \in Range(match_table_all[c]) : e.occ = 1
    /\ Len(AllFlat) < TableCount(match_table_all) + TableCount(gt_only_bbox_table_all)
                       + TableCount(infer_only_bbox_table_all)

\* the number of elements of s equal to v
Copies(s, v) == Cardinality({ i \in 1..Len(s) : s[i] = v })

\* C20: no assertion fails.  While the GT matcher runs, gt_only holds at
\* least as many boxes equal to the current ground-truth box as ground-truth
\* boxes equal to it are still to be visited; in every resolver step each of
\* the three lists holds at least as many rows equal to an overlapping item
\* as overlapping items equal to it are to be removed.
C20_AssertionsHold ==
    /\ pc # "AssertionError"
    /\ pc = "match" =>
           Copies(gt_only_bbox_table, gt_bboxes[gt_idx])
               >= Cardinality({ i \in gt_idx..Len(gt_bboxes) : gt_bboxes[i] = gt_bboxes[gt_idx] })
    /\ ResolveEntry =>
           LET I == flatten_matched_items[matched_item_idx]
               r == ResolveIteration(flatten_matched_items, flatten_gt_only_items,
                                     flatten_infer_only_items, matched_item_idx)
           IN  /\ r.ok
               /\ Len(r.gt_only) = Len(flatten_gt_only_items)
                                     - Len(OverRows(flatten_gt_only_items, I.box))
               /\ Len(r.infer_only) = Len(flatten_infer_only_items)
                                        - Len(OverRows(flatten_infer_only_items, I.box))

\* C20 witness: three ground-truth boxes with the same coordinates; one was
\* matched and taken out of gt_only, and the resolver took the two equal
\* rows left out of its gt_only list
C20_Witness ==
    /\ ResolverDone
    /\ gt_objects[1] = << BoxB, BoxB, BoxB >>
    /\ gt_only_bbox_table_all[1] = << BoxB, BoxB >>
    /\ flatten_matched_items = << [box |-> BoxB, cls |-> 1, occ |-> 1] >>
    /\ flatten_gt_only_items = << >>

\* the votes of the last merge that rewrites the current item I in a step
\* of the resolver: the merge with infer_only when I overlaps an infer_only
\* item, else the merge with gt_only.  The vote starts with the class of
\* the last row of the list the merge has just visited (lines 417 and 425).
LastVotes ==
    LET I == flatten_matched_items[matched_item_idx]
        over2 == OverRows(flatten_gt_only_items, I.box)
        over3 == OverRows(flatten_infer_only_items, I.box)
    IN  IF over3 # << >>
        THEN VoteClasses(flatten_infer_only_items[Len(flatten_infer_only_items)].cls,
                         over3)
        ELSE VoteClasses(flatten_gt_only_items[Len(flatten_gt_only_items)].cls,
                         over2)

\* C21: in a step of the resolver whose current item I overlaps a gt_only
\* or an infer_only item, when two or more classes have the highest count
\* in the vote of the last merge, I's entry gets one of them and none of
\* them has a lower id than the class I's entry gets.
C21_Step ==
    LET I == flatten_matched_items[matched_item_idx]
        top == TopClasses(LastVotes)
    IN  ( /\ ResolveEntry
          /\ Len(OverRows(flatten_gt_only_items, I.box))
                 + Len(OverRows(flatten_infer_only_items, I.box)) > 0
          /\ Cardinality(top) >= 2 )
        => /\ pc' = "resolve"
           /\ flatten_matched_items'[matched_item_idx].cls \in top
           /\ \A c \in top : flatten_matched_items'[matched_item_idx].cls <= c

C21_LowestClassOnTie == [][C21_Step]_vars

\* C21 witness: the resolver is through with a single matched item that had
\* consumed detections at two scales; it overlapped a gt_only item and no
\* infer_only item, two classes had the highest count in the vote, and the
\* item has the lower of the two
C21_Witness ==
    LET fg0 == FlattenTable(gt_only_bbox_table_all, FALSE)
        I == flatten_matched_items[1]
        over == OverRows(fg0, I.box)
        top == TopClasses(VoteClasses(fg0[Len(fg0)].cls, over))
    IN  /\ ResolverDone
        /\ Len(flatten_matched_items) = 1
        /\ \A c \in Classes : Len(infer_only_bbox_table_all[c]) = 0
        /\ \E c \in Classes : Len(match_table_all[c]) = 1 /\ match_table_all[c][1].occ = 2
        /\ Len(fg0) > 0
        /\ over # << >>
        /\ Cardinality(top) = 2
        /\ \A c \in top : I.cls <= c

====
